---- MODULE Spec2Model ----
(***************************************************************************)
(* Model of the contact list application (App.jsx, EditContactForm,        *)
(* AddContactForm).                                                        *)
(*                                                                         *)
(* The state is the state of the App component (its useState cells), the   *)
(* setTimeout callbacks that are outstanding, the position of the          *)
(* filter + sort effect, and the clock that Date.now() reads.  There is    *)
(* one action per event handler or callback.  A handler is enabled when    *)
(* the control that invokes it is rendered (the conditions of the JSX).    *)
(*                                                                         *)
(* Text is a sequence of one-character strings, so that trim, toLowerCase, *)
(* includes, the email pattern and localeCompare are computed, not         *)
(* assumed.  An absent value (JavaScript null) of an optional state cell   *)
(* is the empty sequence and a present value v is <<v>>.                   *)
(***************************************************************************)
EXTENDS Naturals, Integers, Sequences, FiniteSets

(***************************************************************************)
(* Bounds of the model.                                                    *)
(***************************************************************************)
\* User events (clicks, submissions, changes of the search text, typing that
\* clears an error) handled in one behaviour.  The buttons of the info dialog
\* are not counted: More Info, which opens the dialog, is.
MaxEvents == 6
\* Milliseconds the clock can advance in one behaviour.
MaxTicks == 1
\* Contacts of a collection given to the query pipeline on its own.
MaxContacts == 3
\* The clock at mount; every seed id is smaller.
ClockStart == 10
\* The user events a specification of the forms on their own still handles.
ValidatorEvents == 2

(***************************************************************************)
(* Text                                                                    *)
(***************************************************************************)
Range(s) == { s[i] : i \in DOMAIN s }

\* String.prototype.trim's white space, within the alphabet of the model.
WhiteSpace == { " " }

\* The null of an optional text field (location, address, birthday).
Null == << "null" >>

RECURSIVE TrimStart(_)
TrimStart(s) ==
    IF s # << >> /\ Head(s) \in WhiteSpace THEN TrimStart(Tail(s)) ELSE s

RECURSIVE TrimEnd(_)
TrimEnd(s) ==
    IF s # << >> /\ s[Len(s)] \in WhiteSpace
    THEN TrimEnd(SubSeq(s, 1, Len(s) - 1))
    ELSE s

\* String.prototype.trim
Trim(s) == TrimEnd(TrimStart(s))

\* toLowerCase of one character
LowerChar(c) ==
    CASE c = "A" -> "a"
      [] c = "B" -> "b"
      [] c = "L" -> "l"
      [] c = "O" -> "o"
      [] OTHER -> c

\* String.prototype.toLowerCase
ToLowerCase(s) == [ i \in DOMAIN s |-> LowerChar(s[i]) ]

\* String.prototype.includes
Includes(hay, needle) ==
    \E i \in 1 .. (Len(hay) + 1) :
        /\ i + Len(needle) - 1 <= Len(hay)
        /\ SubSeq(hay, i, i + Len(needle) - 1) = needle

\* /\S+@\S+\.\S+/.test(s): somewhere in s, a non-space, "@", one or more
\* non-spaces, ".", a non-space.
EmailPattern(s) ==
    \E i \in DOMAIN s : \E k \in DOMAIN s :
        /\ s[i] = "@"
        /\ i >= 2
        /\ s[i - 1] \notin WhiteSpace
        /\ k >= i + 2
        /\ s[k] = "."
        /\ \A m \in (i + 1) .. (k - 1) : s[m] \notin WhiteSpace
        /\ k + 1 <= Len(s)
        /\ s[k + 1] \notin WhiteSpace

(***************************************************************************)
(* String.prototype.localeCompare (root collation, on the letters and the  *)
(* space of the model): the strings are compared letter by letter without  *)
(* regard to case, a proper prefix first; two strings that differ in case  *)
(* only are ordered by the first position where the case differs, the      *)
(* lower-case letter first.                                                *)
(***************************************************************************)
PrimaryWeight(c) ==
    CASE c = " " -> 0
      [] LowerChar(c) = "a" -> 1
      [] LowerChar(c) = "b" -> 2
      [] LowerChar(c) = "l" -> 3
      [] LowerChar(c) = "o" -> 4
      [] OTHER -> 5

TertiaryWeight(c) == IF LowerChar(c) = c THEN 0 ELSE 1

PrimaryWeights(s) == [ i \in DOMAIN s |-> PrimaryWeight(s[i]) ]

TertiaryWeights(s) == [ i \in DOMAIN s |-> TertiaryWeight(s[i]) ]

\* Two sequences of weights compared: -1, 0 or 1.
RECURSIVE CompareWeights(_, _)
CompareWeights(a, b) ==
    IF a = << >> /\ b = << >> THEN 0
    ELSE IF a = << >> THEN -1
    ELSE IF b = << >> THEN 1
    ELSE IF Head(a) < Head(b) THEN -1
    ELSE IF Head(a) > Head(b) THEN 1
    ELSE CompareWeights(Tail(a), Tail(b))

LocaleCompare(a, b) ==
    LET p == CompareWeights(PrimaryWeights(a), PrimaryWeights(b))
    IN  IF p # 0
        THEN p
        ELSE CompareWeights(TertiaryWeights(a), TertiaryWeights(b))

(***************************************************************************)
(* Contacts                                                                *)
(***************************************************************************)
None == << >>

Some(v) == << v >>

ContactIds(cs) == { cs[i].id : i \in DOMAIN cs }

\* Array.prototype.find(c => c.id === id): the first match, or None.
FindById(cs, id) ==
    IF \E i \in DOMAIN cs : cs[i].id = id
    THEN Some(cs[CHOOSE i \in DOMAIN cs :
                    /\ cs[i].id = id
                    /\ \A j \in 1 .. (i - 1) : cs[j].id # id])
    ELSE None

\* value || null, for a text value
OrNull(s) == IF s = << >> THEN Null ELSE s

\* value || '', for a field of a contact
OrEmpty(v) == IF v = Null THEN << >> ELSE v

(***************************************************************************)
(* The query pipeline: the body of the filter + sort effect.               *)
(***************************************************************************)
\* The filter with the query trimmed before the names are searched.
FilterTrimmed(cs, query) ==
    IF Trim(query) = << >>
    THEN cs
    ELSE LET Matches(c) ==
                 Includes(ToLowerCase(c.name), ToLowerCase(Trim(query)))
         IN  SelectSeq(cs, Matches)

\* The filter: every contact when the trimmed query is empty, otherwise the
\* contacts whose lower-cased name includes the lower-cased query.
FilterContacts(cs, query) ==
    IF Trim(query) = << >>
    THEN cs
    ELSE LET Matches(c) == Includes(ToLowerCase(c.name), ToLowerCase(query))
         IN  SelectSeq(cs, Matches)

\* The comparator given to Array.prototype.sort.
CompareContacts(a, b) ==
    IF a.isFavorite /\ ~b.isFavorite THEN -1
    ELSE IF ~a.isFavorite /\ b.isFavorite THEN 1
    ELSE LocaleCompare(a.name, b.name)

\* x put into the sorted sequence s before the first element that does not
\* compare less than x: before its equals, as a sort that is not stable
\* would.
RECURSIVE InsertBeforeEqual(_, _)
InsertBeforeEqual(s, x) ==
    IF s = << >> THEN << x >>
    ELSE IF CompareContacts(Head(s), x) < 0
         THEN << Head(s) >> \o InsertBeforeEqual(Tail(s), x)
         ELSE << x >> \o s

\* x put into the sorted sequence s behind every element that does not
\* compare greater than x.
RECURSIVE InsertSorted(_, _)
InsertSorted(s, x) ==
    IF s = << >> THEN << x >>
    ELSE IF CompareContacts(Head(s), x) <= 0
         THEN << Head(s) >> \o InsertSorted(Tail(s), x)
         ELSE << x >> \o s

\* Array.prototype.sort with CompareContacts: a stable sort.
RECURSIVE SortFrom(_, _)
SortFrom(sorted, rest) ==
    IF rest = << >> THEN sorted
    ELSE SortFrom(InsertSorted(sorted, Head(rest)), Tail(rest))

SortContacts(cs) == SortFrom(<< >>, cs)

\* The value the effect gives to filteredContacts.
DeriveView(cs, query) == SortContacts(FilterContacts(cs, query))

(***************************************************************************)
(* The validator of the two forms.  The result is the newErrors object:    *)
(* a set of <<field, message>> pairs; the form is valid when it is empty.  *)
(***************************************************************************)
NameErrors(formData) ==
    IF Trim(formData.name) = << >>
    THEN { << "name", "Name is required" >> }
    ELSE { }

EmailErrors(formData) ==
    IF Trim(formData.email) = << >>
    THEN { << "email", "Email is required" >> }
    ELSE IF ~EmailPattern(formData.email)
         THEN { << "email", "Email is invalid" >> }
         ELSE { }

\* existingContacts.some(c => c.phone === formData.phone.trim())
PhoneExists(formData, existingContacts) ==
    \E i \in DOMAIN existingContacts :
        existingContacts[i].phone = Trim(formData.phone)

\* The phone check without the search for a duplicate.
PhoneRequiredOnly(formData, existingContacts) ==
    IF Trim(formData.phone) = << >>
    THEN { << "phone", "Phone is required" >> }
    ELSE { }

PhoneErrors(formData, existingContacts) ==
    IF Trim(formData.phone) = << >>
    THEN { << "phone", "Phone is required" >> }
    ELSE IF PhoneExists(formData, existingContacts)
         THEN { << "phone", "Phone number already exists" >> }
         ELSE { }

\* A validator that returns at the first field that fails.
ValidateFirstFailure(formData, existingContacts) ==
    IF NameErrors(formData) # { }
    THEN NameErrors(formData)
    ELSE IF EmailErrors(formData) # { }
         THEN EmailErrors(formData)
         ELSE PhoneErrors(formData, existingContacts)

ValidateForm(formData, existingContacts) ==
    NameErrors(formData) \cup EmailErrors(formData)
        \cup PhoneErrors(formData, existingContacts)

\* The newContact object of AddContactForm.handleSubmit.
NewContact(formData, id) ==
    [ id |-> id,
      name |-> Trim(formData.name),
      email |-> Trim(formData.email),
      phone |-> Trim(formData.phone),
      location |-> OrNull(Trim(formData.location)),
      address |-> OrNull(Trim(formData.address)),
      birthday |-> OrNull(formData.birthday),
      isFavorite |-> FALSE ]

\* The updatedContact object of EditContactForm.handleSubmit: the contact
\* prop, with the six form fields replaced.
UpdatedContact(contact, formData) ==
    [ contact EXCEPT
        !.name = Trim(formData.name),
        !.email = Trim(formData.email),
        !.phone = Trim(formData.phone),
        !.location = OrNull(Trim(formData.location)),
        !.address = OrNull(Trim(formData.address)),
        !.birthday = OrNull(formData.birthday) ]

\* The existingContacts prop of EditContactForm.
OtherContacts(cs, contact) ==
    LET Other(c) == c.id # contact.id IN SelectSeq(cs, Other)

(***************************************************************************)
(* Inputs: the seed data and what the user types.                          *)
(***************************************************************************)
Email1 == << "x", "@", "y", ".", "z" >>

\* An email that the pattern rejects.
BadEmail == << "x", "@" >>

\* Records of data/contacts.json: no isFavorite field, ids and phones
\* distinct, optional fields present or null.
SeedBo ==
    [ id |-> 1, name |-> << "B", "o" >>, email |-> Email1, phone |-> << "1" >>,
      location |-> << "N" >>, address |-> << "M" >>, birthday |-> << "D" >> ]

SeedAl ==
    [ id |-> 2, name |-> << "A", "l" >>, email |-> Email1, phone |-> << "2" >>,
      location |-> Null, address |-> Null, birthday |-> Null ]

\* data/contacts.json: the seed, in no particular order.
ContactsData == << SeedBo, SeedAl >>

\* What the user types into the Add form.
AddFormData ==
    [ name : { << " " >>, << "a", "l" >> },
      email : { Email1, BadEmail },
      phone : { << "1" >>, << " ", "3" >>, << "4" >> },
      location : { << >> },
      address : { << >> },
      birthday : { << >> } ]

\* What the Edit form holds at submission: the fields of the contact prop,
\* each either left as it was filled in or retyped.
EditFormData(contact) ==
    [ name : { contact.name, << " " >>, << "a", "b" >> },
      email : { contact.email },
      phone : { contact.phone, << "1" >>, << "4" >> },
      location : { OrEmpty(contact.location) },
      address : { OrEmpty(contact.address) },
      birthday : { OrEmpty(contact.birthday) } ]

\* What the user types into the search bar.
SearchQueries == { << >>, << "L" >> }

(***************************************************************************)
(* State                                                                   *)
(***************************************************************************)
VARIABLES
    contacts,           \* useState: the active collection
    filteredContacts,   \* useState: the view given to ContactList
    searchQuery,        \* useState
    loading,            \* useState; TRUE while the fetch timeout is outstanding
    toast,              \* useState: [show, message, type]
    deletedContact,     \* useState: the pending-deletion slot
    showConfirmDialog,  \* useState
    contactToDelete,    \* useState
    showAddForm,        \* useState
    showEditForm,       \* useState
    contactToEdit,      \* useState
    showInfoDialog,     \* useState
    contactToShow,      \* useState
    addErrors,          \* useState of AddContactForm: errors
    editErrors,         \* useState of EditContactForm: errors
    timers,             \* the outstanding timeouts of showToast, oldest first
    effectPending,      \* the filter + sort effect is scheduled and has not run
    now,                \* the last reading of the clock (Date.now())
    events,             \* history: user events handled so far
    deletions,          \* history: confirmed deletions (the last one's serial)
    pendingDeletion,    \* history: serial of the deletion in the slot, or 0
    confirmedAs,        \* history: that contact as it was when the deletion
                        \* was confirmed
    undone,             \* history: serials of the deletions undone
    discarded,          \* history: records whose deletion was superseded
    nothingPending,     \* history: handleUndoDelete has found the slot empty
    notFound,           \* history: the handlers that were given an id that
                        \* no contact of the collection has
    viewAtConfirm,      \* history: the view the pending deletion was confirmed
                        \* in, while the collection and the search text are
                        \* as that deletion left them
    issuedIds           \* history: every id of a contact of this session

\* A form's errors are its errors object, a set of <<field, message>> pairs:
\* the newErrors of its last submission, with the message of a field
\* replaced by '' once the field is typed in.  They are empty while the form
\* is not mounted.  The form's formData is not kept: a submission draws the
\* content that has been typed.

vars ==
    << contacts, filteredContacts, searchQuery, loading, toast, deletedContact,
       showConfirmDialog, contactToDelete, showAddForm, showEditForm,
       contactToEdit, showInfoDialog, contactToShow, addErrors, editErrors,
       timers, effectPending, now, events, deletions,
       pendingDeletion, confirmedAs, undone, discarded, nothingPending,
       viewAtConfirm, notFound, issuedIds >>

\* The collection, its view and the query.
listVars == << contacts, filteredContacts, searchQuery, loading >>

\* The toast, the slot and the timeouts.
toastVars == << toast, deletedContact, timers >>

\* The info dialog.
infoVars == << showInfoDialog, contactToShow >>

\* The popups.
popupVars ==
    << showConfirmDialog, contactToDelete, showAddForm, showEditForm,
       contactToEdit, addErrors, editErrors, infoVars >>

\* The history of the deletions.
deletionVars ==
    << deletions, pendingDeletion, confirmedAs, undone, discarded,
       nothingPending, viewAtConfirm, notFound >>

HiddenToast == [ show |-> FALSE, message |-> << >>, type |-> "success" ]

Init ==
    /\ contacts = << >>
    /\ filteredContacts = << >>
    /\ searchQuery = << >>
    /\ loading = TRUE
    /\ toast = HiddenToast
    /\ deletedContact = None
    /\ showConfirmDialog = FALSE
    /\ contactToDelete = None
    /\ showAddForm = FALSE
    /\ showEditForm = FALSE
    /\ contactToEdit = None
    /\ showInfoDialog = FALSE
    /\ contactToShow = None
    /\ addErrors = { }
    /\ editErrors = { }
    /\ timers = << >>
    /\ effectPending = FALSE
    /\ now = ClockStart
    /\ events = 0
    /\ deletions = 0
    /\ pendingDeletion = 0
    /\ confirmedAs = None
    /\ undone = { }
    /\ discarded = { }
    /\ nothingPending = FALSE
    /\ viewAtConfirm = None
    /\ notFound = { }
    /\ issuedIds = { }

(***************************************************************************)
(* showToast(message, type): shows the toast and arms a timeout that hides *)
(* whatever toast is shown then and, for type 'delete', empties the slot.  *)
(* The timeout is never cleared.  armedBy is history: the serial of the    *)
(* deletion that armed the timeout, 0 for another notification.            *)
(***************************************************************************)
ToastShown(message, type) == [ show |-> TRUE, message |-> message, type |-> type ]

TimerArmed(type, serial) == Append(timers, [ type |-> type, armedBy |-> serial ])

ShowToast(message, type, serial) ==
    /\ toast' = ToastShown(message, type)
    /\ timers' = TimerArmed(type, serial)

\* A user event or a timeout is handled after the scheduled effect has run.
Idle == ~effectPending

\* A user event is handled; the events are counted, up to MaxEvents.
UserEvent ==
    /\ Idle
    /\ events < MaxEvents
    /\ events' = events + 1

\* ContactList shows the cards of its contacts prop (filteredContacts), and
\* a spinner instead while loading.
CardIds == IF loading THEN { } ELSE ContactIds(filteredContacts)

\* The readings the clock can give from now on.
ClockReadings == now .. (ClockStart + MaxTicks)

(***************************************************************************)
(* Actions                                                                 *)
(***************************************************************************)
\* contactsData.map(contact => ({...contact, isFavorite: false}))
ContactsWithFavorites ==
    [ i \in DOMAIN ContactsData |->
        [ id |-> ContactsData[i].id,
          name |-> ContactsData[i].name,
          email |-> ContactsData[i].email,
          phone |-> ContactsData[i].phone,
          location |-> ContactsData[i].location,
          address |-> ContactsData[i].address,
          birthday |-> ContactsData[i].birthday,
          isFavorite |-> FALSE ] ]

\* The timeout of fetchContacts (1500 ms after mount): the seed becomes the
\* collection and the view.
FetchContactsTimeout ==
    /\ Idle
    /\ loading
    /\ contacts' = ContactsWithFavorites
    /\ filteredContacts' = ContactsWithFavorites
    /\ loading' = FALSE
    /\ effectPending' = TRUE
    /\ issuedIds' = issuedIds \cup ContactIds(ContactsWithFavorites)
    /\ UNCHANGED << searchQuery, toastVars, popupVars, now, events, deletionVars >>

\* The effect on [searchQuery, contacts]: filter, sort, setFilteredContacts.
FilterSortEffect ==
    /\ effectPending
    /\ filteredContacts' = DeriveView(contacts, searchQuery)
    /\ effectPending' = FALSE
    /\ UNCHANGED << contacts, searchQuery, loading, toastVars, popupVars, now,
                    events, deletionVars, issuedIds >>

HandleSearchChange(query) ==
    /\ UserEvent
    /\ searchQuery' = query
    /\ effectPending' = (query # searchQuery)
    /\ viewAtConfirm' = None
    /\ UNCHANGED << contacts, filteredContacts, loading, toastVars, popupVars,
                    now, deletions, pendingDeletion, confirmedAs, undone,
                    discarded, nothingPending, notFound, issuedIds >>

HandleShowAddForm ==
    /\ UserEvent
    /\ showAddForm' = TRUE
    /\ UNCHANGED << listVars, toastVars, showConfirmDialog, contactToDelete,
                    showEditForm, contactToEdit, addErrors, editErrors,
                    infoVars, effectPending, now, deletionVars, issuedIds >>

HandleCloseAddForm ==
    /\ UserEvent
    /\ showAddForm
    /\ showAddForm' = FALSE
    /\ addErrors' = { }
    /\ UNCHANGED << listVars, toastVars, showConfirmDialog, contactToDelete,
                    showEditForm, contactToEdit, editErrors, infoVars,
                    effectPending, now, deletionVars, issuedIds >>

\* handleAddContact, had it put the new contact behind the others.
HandleAddContactAtEnd(newContact) ==
    /\ contacts' = Append(contacts, [ newContact EXCEPT !.isFavorite = FALSE ])
    /\ ShowToast(<< newContact.name, " added successfully!" >>, "success", 0)

\* handleAddContact
HandleAddContact(newContact) ==
    /\ contacts' = << [ newContact EXCEPT !.isFavorite = FALSE ] >> \o contacts
    /\ ShowToast(<< newContact.name, " added successfully!" >>, "success", 0)

\* AddContactForm.handleSubmit; reading is what Date.now() returns.
AddFormSubmit(formData, reading) ==
    /\ UserEvent
    /\ showAddForm
    /\ IF ValidateForm(formData, contacts) = { }
       THEN /\ now' = reading
            /\ HandleAddContact(NewContact(formData, reading))
            /\ showAddForm' = FALSE
            /\ addErrors' = { }
            /\ effectPending' = TRUE
            /\ issuedIds' = issuedIds \cup { reading }
            /\ viewAtConfirm' = None
       ELSE /\ addErrors' = ValidateForm(formData, contacts)
            /\ UNCHANGED << contacts, toast, timers, showAddForm,
                            effectPending, now, issuedIds, viewAtConfirm >>
    /\ UNCHANGED << filteredContacts, searchQuery, loading, deletedContact,
                    showConfirmDialog, contactToDelete, showEditForm,
                    contactToEdit, editErrors, infoVars, deletions,
                    pendingDeletion, confirmedAs, undone,
                    discarded, nothingPending, notFound >>

\* The map of a handler that marks the contact as a favorite instead of
\* flipping the mark.
MarkFavorite(cs, contactId) ==
    [ i \in DOMAIN cs |->
        IF cs[i].id = contactId
        THEN [ cs[i] EXCEPT !.isFavorite = TRUE ]
        ELSE cs[i] ]

\* prevContacts.map(...) of handleToggleFavorite
ToggleFavorite(cs, contactId) ==
    [ i \in DOMAIN cs |->
        IF cs[i].id = contactId
        THEN [ cs[i] EXCEPT !.isFavorite = ~cs[i].isFavorite ]
        ELSE cs[i] ]

\* handleToggleFavorite, the onToggleFavorite prop of ContactList.
OnToggleFavorite(contactId) ==
    /\ contacts' = ToggleFavorite(contacts, contactId)
    /\ LET contact == FindById(contacts, contactId)
       IN  IF contact # None
           THEN /\ ShowToast(<< contact[1].name,
                                IF contact[1].isFavorite
                                THEN " removed from" ELSE " added to",
                                " favorites" >>, "success", 0)
                /\ UNCHANGED notFound
           ELSE /\ notFound' = notFound \cup { "handleToggleFavorite" }
                /\ UNCHANGED << toast, timers >>
    /\ effectPending' = TRUE
    /\ viewAtConfirm' = None
    /\ UNCHANGED << filteredContacts, searchQuery, loading, deletedContact,
                    popupVars, now, deletions, pendingDeletion, confirmedAs, undone,
                    discarded, nothingPending, issuedIds >>

\* The favorite button of a card.
HandleToggleFavorite(contactId) ==
    /\ UserEvent
    /\ contactId \in CardIds
    /\ OnToggleFavorite(contactId)

\* handleDeleteContact, the onDelete prop of ContactList.
OnDelete(contactId) ==
    /\ LET contact == FindById(contacts, contactId)
       IN  IF contact # None
           THEN /\ contactToDelete' = contact
                /\ showConfirmDialog' = TRUE
                /\ UNCHANGED notFound
           ELSE /\ notFound' = notFound \cup { "handleDeleteContact" }
                /\ UNCHANGED << contactToDelete, showConfirmDialog >>
    /\ UNCHANGED << listVars, toastVars, showAddForm, showEditForm,
                    contactToEdit, addErrors, editErrors, infoVars,
                    effectPending, now, deletions, pendingDeletion,
                    confirmedAs, undone, discarded, nothingPending,
                    viewAtConfirm, issuedIds >>

\* The delete button of a card.
HandleDeleteContact(contactId) ==
    /\ UserEvent
    /\ contactId \in CardIds
    /\ OnDelete(contactId)

\* What the slot keeps when a later deletion is confirmed while it is
\* occupied, had handleConfirmDelete spared an occupied slot.
KeepFirstDeleted == IF deletedContact # None THEN deletedContact ELSE contactToDelete

\* setDeletedContact(contactToDelete): the slot is overwritten.
NextDeletedContact == contactToDelete

\* The Delete button of the confirmation dialog.
HandleConfirmDelete ==
    /\ UserEvent
    /\ showConfirmDialog
    /\ contactToDelete # None
    /\ deletedContact' = NextDeletedContact
    /\ contacts' =
           LET Kept(c) == c.id # contactToDelete[1].id
           IN  SelectSeq(contacts, Kept)
    /\ ShowToast(<< contactToDelete[1].name, " deleted - Undo?" >>, "delete",
                 deletions + 1)
    /\ showConfirmDialog' = FALSE
    /\ contactToDelete' = None
    /\ effectPending' = TRUE
    /\ deletions' = deletions + 1
    /\ pendingDeletion' = deletions + 1
    /\ confirmedAs' = FindById(contacts, contactToDelete[1].id)
    /\ viewAtConfirm' = Some(filteredContacts)
    /\ discarded' =
           IF deletedContact # None
           THEN discarded \cup { deletedContact[1] }
           ELSE discarded
    /\ UNCHANGED << filteredContacts, searchQuery, loading, showAddForm,
                    showEditForm, contactToEdit, addErrors, editErrors,
                    infoVars, now, undone, nothingPending, notFound,
                    issuedIds >>

\* The Cancel button, the close button and the backdrop of the dialog.
HandleCancelDelete ==
    /\ UserEvent
    /\ showConfirmDialog
    /\ contactToDelete # None
    /\ showConfirmDialog' = FALSE
    /\ contactToDelete' = None
    /\ UNCHANGED << listVars, toastVars, showAddForm, showEditForm,
                    contactToEdit, addErrors, editErrors, infoVars,
                    effectPending, now, deletionVars, issuedIds >>

\* handleShowInfo, the onShowInfo prop of ContactList.
OnShowInfo(contactId) ==
    /\ LET contact == FindById(contacts, contactId)
       IN  IF contact # None
           THEN /\ contactToShow' = contact
                /\ showInfoDialog' = TRUE
           ELSE UNCHANGED infoVars
    /\ UNCHANGED << listVars, toastVars, showConfirmDialog, contactToDelete,
                    showAddForm, showEditForm, contactToEdit, addErrors,
                    editErrors, effectPending, now, deletionVars, issuedIds >>

\* The More Info button of a card.
HandleShowInfo(contactId) ==
    /\ UserEvent
    /\ contactId \in CardIds
    /\ OnShowInfo(contactId)

\* The info dialog is rendered.
InfoDialogShown == showInfoDialog /\ contactToShow # None

\* handleCloseInfo
CloseInfo ==
    /\ showInfoDialog' = FALSE
    /\ contactToShow' = None

\* The buttons of the info dialog end what More Info began: each can be
\* clicked once for every More Info, and is not counted among the events.
\* The Close button, the close icon and the backdrop of the info dialog.
HandleCloseInfo ==
    /\ Idle
    /\ InfoDialogShown
    /\ CloseInfo
    /\ UNCHANGED << listVars, toastVars, showConfirmDialog, contactToDelete,
                    showAddForm, showEditForm, contactToEdit, addErrors,
                    editErrors, effectPending, now, events, deletionVars,
                    issuedIds >>

\* handleShowEditForm: the contact is looked up in the collection, whatever
\* the view shows.
ShowEditForm(contactId) ==
    LET contact == FindById(contacts, contactId)
    IN  IF contact # None
        THEN /\ contactToEdit' = contact
             /\ showEditForm' = TRUE
        ELSE UNCHANGED << contactToEdit, showEditForm >>

\* The Edit Contact button of the info dialog: handleCloseInfo(), then
\* handleShowEditForm(contactToShow.id).
HandleShowEditForm ==
    /\ Idle
    /\ InfoDialogShown
    /\ CloseInfo
    /\ ShowEditForm(contactToShow[1].id)
    /\ UNCHANGED << listVars, toastVars, showConfirmDialog, contactToDelete,
                    showAddForm, addErrors, editErrors, effectPending, now,
                    events, deletionVars, issuedIds >>

HandleCloseEditForm ==
    /\ UserEvent
    /\ showEditForm
    /\ contactToEdit # None
    /\ showEditForm' = FALSE
    /\ contactToEdit' = None
    /\ editErrors' = { }
    /\ UNCHANGED << listVars, toastVars, showConfirmDialog, contactToDelete,
                    showAddForm, addErrors, infoVars, effectPending, now,
                    deletionVars, issuedIds >>

\* The fields of a form that can have an error.
ErrorNames == { "name", "email", "phone" }

\* setErrors(prev => ({...prev, [name]: ''})) of handleInputChange, which
\* does so when errors[name] is truthy.
ClearError(errors, name) ==
    { e \in errors : e[1] # name } \cup { << name, "" >> }

\* errors[name] is truthy: the field has a message that is not ''.
HasError(errors, name) == \E e \in errors : e[1] = name /\ e[2] # ""

\* AddContactForm.handleInputChange on a field whose error is shown.  On
\* another field it changes the form's formData only.
AddFormInputChange(name) ==
    /\ UserEvent
    /\ showAddForm
    /\ HasError(addErrors, name)
    /\ addErrors' = ClearError(addErrors, name)
    /\ UNCHANGED << listVars, toastVars, showConfirmDialog, contactToDelete,
                    showAddForm, showEditForm, contactToEdit, editErrors,
                    infoVars, effectPending, now, deletionVars, issuedIds >>

\* EditContactForm.handleInputChange on a field whose error is shown.
EditFormInputChange(name) ==
    /\ UserEvent
    /\ showEditForm
    /\ contactToEdit # None
    /\ HasError(editErrors, name)
    /\ editErrors' = ClearError(editErrors, name)
    /\ UNCHANGED << listVars, toastVars, showConfirmDialog, contactToDelete,
                    showAddForm, showEditForm, contactToEdit, addErrors,
                    infoVars, effectPending, now, deletionVars, issuedIds >>

\* handleUpdateContact
HandleUpdateContact(updatedContact) ==
    /\ contacts' =
           [ i \in DOMAIN contacts |->
               IF contacts[i].id = updatedContact.id
               THEN updatedContact
               ELSE contacts[i] ]
    /\ ShowToast(<< updatedContact.name, " updated successfully!" >>,
                 "success", 0)
    /\ showEditForm' = FALSE
    /\ contactToEdit' = None
    /\ editErrors' = { }

\* EditContactForm.handleSubmit
EditFormSubmit(formData) ==
    /\ UserEvent
    /\ showEditForm
    /\ contactToEdit # None
    /\ LET contact == contactToEdit[1]
       IN  IF ValidateForm(formData, OtherContacts(contacts, contact)) = { }
           THEN /\ HandleUpdateContact(UpdatedContact(contact, formData))
                /\ effectPending' = TRUE
                /\ viewAtConfirm' = None
           ELSE /\ editErrors' =
                       ValidateForm(formData, OtherContacts(contacts, contact))
                /\ UNCHANGED << contacts, toast, timers, showEditForm,
                                contactToEdit, effectPending, viewAtConfirm >>
    /\ UNCHANGED << filteredContacts, searchQuery, loading, deletedContact,
                    showConfirmDialog, contactToDelete, showAddForm, addErrors,
                    infoVars, now, deletions, pendingDeletion, confirmedAs,
                    undone, discarded, nothingPending, notFound, issuedIds >>

\* The UNDO button is rendered in a shown toast of type 'delete' while the
\* slot is occupied.
UndoOffered == toast.show /\ toast.type = "delete" /\ deletedContact # None

\* handleUndoDelete without its test of the slot: what the slot holds is
\* appended and the notification shown, whether or not there is a contact.
UndoDeleteUnguarded ==
    /\ contacts' = contacts \o deletedContact
    /\ ShowToast(<< deletedContact, " restored!" >>, "success", 0)
    /\ deletedContact' = None
    /\ effectPending' = TRUE
    /\ undone' = IF deletedContact # None
                 THEN undone \cup { pendingDeletion }
                 ELSE undone
    /\ nothingPending' = (nothingPending \/ deletedContact = None)
    /\ pendingDeletion' = 0
    /\ confirmedAs' = None
    /\ viewAtConfirm' = None
    /\ UNCHANGED << filteredContacts, searchQuery, loading, popupVars, now,
                    deletions, discarded, notFound, issuedIds >>

\* handleUndoDelete
UndoDelete ==
    /\ IF deletedContact # None
       THEN /\ contacts' = Append(contacts, deletedContact[1])
            /\ ShowToast(<< deletedContact[1].name, " restored!" >>, "success", 0)
            /\ deletedContact' = None
            /\ effectPending' = TRUE
            /\ undone' = undone \cup { pendingDeletion }
            /\ pendingDeletion' = 0
            /\ confirmedAs' = None
            /\ viewAtConfirm' = None
            /\ UNCHANGED nothingPending
       ELSE /\ nothingPending' = TRUE
            /\ UNCHANGED << contacts, toast, timers, deletedContact,
                            effectPending, undone, pendingDeletion,
                            confirmedAs, viewAtConfirm >>
    /\ UNCHANGED << filteredContacts, searchQuery, loading, popupVars, now,
                    deletions, discarded, notFound, issuedIds >>

\* The UNDO button of the toast.
HandleUndoDelete ==
    /\ UserEvent
    /\ UndoOffered
    /\ UndoDelete

\* The callback of a timeout of showToast, had it hidden the toast only.
ToastTimeoutHidesOnly ==
    /\ Idle
    /\ ~loading
    /\ timers # << >>
    /\ toast' = HiddenToast
    /\ timers' = Tail(timers)
    /\ UNCHANGED << listVars, popupVars, effectPending, now, events,
                    deletedContact, deletionVars, issuedIds >>

\* The callback of the oldest timeout of showToast.  Every toast timeout
\* lasts 5000 ms, so they expire in the order they were armed, and after
\* the fetch timeout (1500 ms, armed at mount).
ToastTimeout ==
    /\ Idle
    /\ ~loading
    /\ timers # << >>
    /\ toast' = HiddenToast
    /\ IF Head(timers).type = "delete"
       THEN /\ deletedContact' = None
            /\ pendingDeletion' = 0
            /\ confirmedAs' = None
            /\ viewAtConfirm' = None
       ELSE UNCHANGED << deletedContact, pendingDeletion, confirmedAs,
                         viewAtConfirm >>
    /\ timers' = Tail(timers)
    /\ UNCHANGED << listVars, popupVars, effectPending, now, events, deletions,
                    undone, discarded, nothingPending, notFound, issuedIds >>

Next ==
    \/ FetchContactsTimeout
    \/ FilterSortEffect
    \/ \E query \in SearchQueries : HandleSearchChange(query)
    \/ HandleShowAddForm
    \/ HandleCloseAddForm
    \/ \E formData \in AddFormData : \E reading \in ClockReadings :
           AddFormSubmit(formData, reading)
    \/ \E contactId \in CardIds : HandleToggleFavorite(contactId)
    \/ \E contactId \in CardIds : HandleDeleteContact(contactId)
    \/ HandleConfirmDelete
    \/ HandleCancelDelete
    \/ \E contactId \in CardIds : HandleShowInfo(contactId)
    \/ HandleCloseInfo
    \/ HandleShowEditForm
    \/ HandleCloseEditForm
    \/ \E name \in ErrorNames : AddFormInputChange(name)
    \/ \E name \in ErrorNames : EditFormInputChange(name)
    \/ \E formData \in
           (IF contactToEdit # None THEN EditFormData(contactToEdit[1]) ELSE { }) :
           EditFormSubmit(formData)
    \/ HandleUndoDelete
    \/ ToastTimeout

Spec == Init /\ [][Next]_vars

(***************************************************************************)
(* The life of a deletion: the session of a user who searches, marks       *)
(* favorites, deletes and undoes, and leaves the forms alone.  The         *)
(* timeouts that are armed fire, and the scheduled effect runs: the        *)
(* browser runs the callbacks of setTimeout and React the effects.         *)
(* Nothing is assumed of the user.                                         *)
(***************************************************************************)
NextLive ==
    \/ FetchContactsTimeout
    \/ FilterSortEffect
    \/ \E query \in SearchQueries : HandleSearchChange(query)
    \/ \E contactId \in CardIds : HandleToggleFavorite(contactId)
    \/ \E contactId \in CardIds : HandleDeleteContact(contactId)
    \/ HandleConfirmDelete
    \/ HandleCancelDelete
    \/ HandleUndoDelete
    \/ ToastTimeout

SpecLive ==
    /\ Init
    /\ [][NextLive]_vars
    /\ WF_vars(FetchContactsTimeout)
    /\ WF_vars(FilterSortEffect)
    /\ WF_vars(ToastTimeout)

(***************************************************************************)
(* The query pipeline on its own: the effect applied to a loaded           *)
(* collection of up to MaxContacts contacts and a search text.             *)
(***************************************************************************)
QueryNames ==
    { << "A", "l" >>, << "a", "l" >>, << "B", "o" >>, << "l", " ", "o" >> }

QueryEmails == { Email1, << "l", "@", "y", ".", "z" >> }

QueryTexts ==
    { << >>, << " " >>, << "L" >>, << "l", " " >>, << "o", "l" >> }

\* The phone of the contact with id i.
PhoneOf(i) == << << "1", "2", "3", "4", "5" >>[i] >>

\* The contact with id i of a collection.
QueryContact(i, name, email, isFavorite) ==
    [ id |-> i, name |-> name, email |-> email, phone |-> PhoneOf(i),
      location |-> Null, address |-> Null, birthday |-> Null,
      isFavorite |-> isFavorite ]

QueryCollections ==
    UNION { { [ i \in 1 .. n |->
                  QueryContact(i, f[i][1], f[i][2], f[i][3]) ] :
              f \in [ 1 .. n -> QueryNames \X QueryEmails \X BOOLEAN ] } :
            n \in 0 .. MaxContacts }

InitQuery ==
    /\ contacts \in QueryCollections
    /\ searchQuery \in QueryTexts
    /\ filteredContacts = << >>
    /\ loading = FALSE
    /\ effectPending = TRUE
    /\ toast = HiddenToast
    /\ deletedContact = None
    /\ showConfirmDialog = FALSE
    /\ contactToDelete = None
    /\ showAddForm = FALSE
    /\ showEditForm = FALSE
    /\ contactToEdit = None
    /\ showInfoDialog = FALSE
    /\ contactToShow = None
    /\ addErrors = { }
    /\ editErrors = { }
    /\ timers = << >>
    /\ now = ClockStart
    /\ events = 0
    /\ deletions = 0
    /\ pendingDeletion = 0
    /\ confirmedAs = None
    /\ undone = { }
    /\ discarded = { }
    /\ nothingPending = FALSE
    /\ viewAtConfirm = None
    /\ notFound = { }
    /\ issuedIds = ContactIds(contacts)

NextQuery == FilterSortEffect

SpecQuery == InitQuery /\ [][NextQuery]_vars

(***************************************************************************)
(* The forms on their own: the Add form, and the Edit form of a contact,   *)
(* open over a loaded collection, and submitted with every kind of         *)
(* content.                                                                *)
(***************************************************************************)
ValidatorFormData ==
    [ name : { << >>, << " " >>, << "a", "l" >> },
      email : { << >>, << " " >>, BadEmail, Email1 },
      phone : { << >>, << " " >>, << "1" >>, << " ", "2" >>, << "4" >> },
      location : { << >> },
      address : { << >> },
      birthday : { << >> } ]

\* The collections the forms are opened over: the seed, or its first
\* contacts.
ValidatorCollections ==
    { SubSeq(ContactsWithFavorites, 1, n) : n \in 0 .. Len(ContactsWithFavorites) }

InitValidator ==
    /\ contacts \in ValidatorCollections
    /\ filteredContacts = DeriveView(contacts, << >>)
    /\ searchQuery = << >>
    /\ loading = FALSE
    /\ toast = HiddenToast
    /\ deletedContact = None
    /\ showConfirmDialog = FALSE
    /\ contactToDelete = None
    /\ showAddForm = TRUE
    /\ contactToEdit \in { None } \cup { Some(c) : c \in Range(contacts) }
    /\ showEditForm = (contactToEdit # None)
    /\ showInfoDialog = FALSE
    /\ contactToShow = None
    /\ addErrors = { }
    /\ editErrors = { }
    /\ timers = << >>
    /\ effectPending = FALSE
    /\ now = ClockStart
    /\ events = MaxEvents - ValidatorEvents
    /\ deletions = 0
    /\ pendingDeletion = 0
    /\ confirmedAs = None
    /\ undone = { }
    /\ discarded = { }
    /\ nothingPending = FALSE
    /\ viewAtConfirm = None
    /\ notFound = { }
    /\ issuedIds = ContactIds(contacts)

NextValidator ==
    \/ FilterSortEffect
    \/ HandleShowAddForm
    \/ \E formData \in ValidatorFormData : \E reading \in ClockReadings :
           AddFormSubmit(formData, reading)
    \/ \E formData \in ValidatorFormData : EditFormSubmit(formData)
    \/ \E name \in ErrorNames : AddFormInputChange(name)
    \/ \E name \in ErrorNames : EditFormInputChange(name)

SpecValidator == InitValidator /\ [][NextValidator]_vars

(***************************************************************************)
(* The handlers as operations: handleUndoDelete is called whether or not   *)
(* the UNDO button is rendered, and its own test of the slot decides.      *)
(***************************************************************************)
CallUndoDelete ==
    /\ UserEvent
    /\ UndoDelete

\* The ids a handler can be called with: those of the seed, and one that no
\* contact ever has.
OperationIds == ContactIds(ContactsWithFavorites) \cup { 0 }

CallToggleFavorite(contactId) ==
    /\ UserEvent
    /\ OnToggleFavorite(contactId)

CallDelete(contactId) ==
    /\ UserEvent
    /\ OnDelete(contactId)

NextOperations ==
    \/ Next
    \/ CallUndoDelete
    \/ \E contactId \in OperationIds : CallToggleFavorite(contactId)
    \/ \E contactId \in OperationIds : CallDelete(contactId)

SpecOperations == Init /\ [][NextOperations]_vars

(***************************************************************************)
(* Steps, recognised by what they change.                                  *)
(***************************************************************************)
\* A timeout of showToast is handled.
TimeoutStep == timers # << >> /\ timers' = Tail(timers)

\* handleUndoDelete restores the contact of the slot.
UndoStep == undone' # undone

\* handleConfirmDelete
ConfirmStep == deletions' # deletions

\* A successful submission of the Add form.
AddStep ==
    /\ Len(contacts') = Len(contacts) + 1
    /\ undone' = undone
    /\ loading' = loading

(***************************************************************************)
(* Properties                                                              *)
(***************************************************************************)
\* C1: in every reachable state, no two contacts of the active collection
\* have equal trimmed phone values.
NoDuplicatePhone ==
    \A i, j \in DOMAIN contacts :
        i # j => Trim(contacts[i].phone) # Trim(contacts[j].phone)

\* C2: in every reachable state the view is sort(filter(contacts,
\* searchQuery)) of the current collection and the current search text, and
\* so holds active contacts only.
ViewIsDerived ==
    /\ filteredContacts = DeriveView(contacts, searchQuery)
    /\ Range(filteredContacts) \subseteq Range(contacts)

\* C3: in every view shown, the favorites precede the others and, within
\* each of the two groups, the names ascend without regard to case.
CaseInsensitiveLeq(a, b) ==
    CompareWeights(PrimaryWeights(ToLowerCase(a)),
                   PrimaryWeights(ToLowerCase(b))) <= 0

ViewIsOrdered ==
    \A i, j \in DOMAIN filteredContacts :
        i < j =>
            LET a == filteredContacts[i]
                b == filteredContacts[j]
            IN  /\ ~(~a.isFavorite /\ b.isFavorite)
                /\ a.isFavorite = b.isFavorite =>
                       CaseInsensitiveLeq(a.name, b.name)

\* C4: an undo while the deleted contact is in the slot appends the contact
\* with the field values it had when its deletion was confirmed; and no undo
\* restores a contact whose deletion's timeout has expired.
UndoRestoresConfirmed ==
    [][ UndoStep =>
          /\ confirmedAs # None
          /\ contacts' = Append(contacts, confirmedAs[1])
          /\ \E i \in DOMAIN timers : timers[i].armedBy = pendingDeletion
      ]_vars

\* C5: the slot is emptied only by the undo of the deletion it holds, by a
\* later confirmed deletion (which replaces its content), or by the expiry
\* of the timeout that this very deletion armed.
SlotHeldForWindow ==
    [][ (deletedContact # None /\ deletedContact' = None) =>
          \/ UndoStep
          \/ TimeoutStep /\ Head(timers).armedBy = pendingDeletion
      ]_vars

\* C6: the slot holds at most one contact.  A deletion confirmed while the
\* slot is occupied puts its own contact, which leaves the collection, in
\* the slot; the slot never takes another content otherwise; an undo appends
\* the contact of the slot and nothing else; and an id enters the collection
\* only by an add, an undo or the seed load.  So a superseded contact is in
\* no place an undo restores from, and never re-enters.
SupersededIsDiscarded ==
    [][ /\ Len(deletedContact') <= 1
        /\ (ConfirmStep /\ deletedContact # None) =>
               /\ deletedContact' # None
               /\ deletedContact'[1].id
                      \in ContactIds(contacts) \ ContactIds(contacts')
               /\ deletedContact[1] \in discarded'
        /\ ~ConfirmStep => deletedContact' \in { deletedContact, None }
        /\ UndoStep => contacts' = Append(contacts, deletedContact[1])
        /\ ~(AddStep \/ UndoStep \/ loading) =>
               ContactIds(contacts') \subseteq ContactIds(contacts)
      ]_vars

\* C6, its case: B's deletion was confirmed while A was pending, and the
\* undo that followed restored B; A is not in the collection.
SupersededThenUndone ==
    /\ deletions >= 2
    /\ deletions \in undone
    /\ discarded # { }
    /\ \A r \in discarded : r.id \notin ContactIds(contacts)
    /\ Len(contacts) = Len(ContactsData) - 1

\* The outstanding timeouts that empty the slot when they expire.
DeleteTimers == { i \in DOMAIN timers : timers[i].type = "delete" }

\* C7: at most one delete-undo timeout is outstanding at any time (a newly
\* confirmed deletion leaves none of an earlier deletion behind).
SingleDeleteTimer == Cardinality(DeleteTimers) <= 1

\* C8: the timeout armed by a deletion does not fire after the undo of that
\* deletion has succeeded.
NoExpiryAfterUndo ==
    [][ TimeoutStep => Head(timers).armedBy \notin undone ]_vars

\* C9: the expiry of the timeout of a deletion that was undone leaves the
\* collection and the slot as they are, whatever the slot holds.
ExpiryAfterUndoIsNoOp ==
    [][ (TimeoutStep /\ Head(timers).armedBy \in undone) =>
            /\ contacts' = contacts
            /\ deletedContact' = deletedContact
      ]_vars

\* C10: the id of a contact that a successful add creates differs from every
\* id issued or present earlier in the session.
AddedIdIsFresh ==
    [][ AddStep =>
            contacts'[1].id \notin
                (issuedIds \cup ContactIds(contacts)
                    \cup { deletedContact[i].id : i \in DOMAIN deletedContact }
                    \cup { r.id : r \in discarded })
      ]_vars

\* C11: in every reachable state the ids of the active collection are
\* pairwise distinct.
NoDuplicateId ==
    \A i, j \in DOMAIN contacts : i # j => contacts[i].id # contacts[j].id

\* A submission that must fail: a required field is missing, the email has
\* not the form of an email, or an active contact (of those the form is
\* given) has the trimmed phone.
MustFail(formData, existingContacts) ==
    \/ Trim(formData.name) = << >>
    \/ Trim(formData.email) = << >>
    \/ ~EmailPattern(formData.email)
    \/ Trim(formData.phone) = << >>
    \/ \E c \in Range(existingContacts) : c.phone = Trim(formData.phone)

\* The errors a failed submission reports: at least one, each on a field of
\* the form, and the DuplicatePhone error on the phone field when an active
\* contact has the trimmed phone.
ReportsFailure(errors, formData, existingContacts) ==
    /\ errors # { }
    /\ \A e \in errors : e[1] \in { "name", "email", "phone" }
    /\ (\E c \in Range(existingContacts) : c.phone = Trim(formData.phone))
           => << "phone", "Phone number already exists" >> \in errors

\* A step that leaves alone what no submission of the Add form changes
\* (resp. of the Edit form): only such a step can be a submission.
MaybeAddSubmission ==
    /\ showAddForm
    /\ events' # events
    /\ timers' = timers \/ ~showAddForm'
    /\ UNCHANGED << searchQuery, showConfirmDialog, showEditForm, editErrors,
                    deletedContact >>

MaybeEditSubmission ==
    /\ showEditForm
    /\ contactToEdit # None
    /\ events' # events
    /\ timers' = timers \/ ~showEditForm'
    /\ UNCHANGED << searchQuery, showConfirmDialog, showAddForm, addErrors,
                    deletedContact >>

\* C12: a submission of the Add form or of the Edit form whose validation
\* fails leaves the collection, the slot and the view unchanged and reports
\* errors on the fields; a duplicate phone is reported on the phone field.
\* (For every form content: the step has that effect, or the content is
\* valid, or the step is not the submission of that content.)
FailedValidationChangesNothing ==
    [][ /\ MaybeAddSubmission =>
              \A formData \in AddFormData :
                  \/ /\ UNCHANGED << contacts, deletedContact,
                                      filteredContacts, effectPending >>
                     /\ ReportsFailure(addErrors', formData, contacts)
                  \/ ~MustFail(formData, contacts)
                  \/ ~AddFormSubmit(formData, now')
        /\ MaybeEditSubmission =>
              \A formData \in EditFormData(contactToEdit[1]) :
                  LET others ==
                          SelectSeq(contacts,
                                    LAMBDA c : c.id # contactToEdit[1].id)
                  IN  \/ /\ UNCHANGED << contacts, deletedContact,
                                          filteredContacts, effectPending >>
                         /\ ReportsFailure(editErrors', formData, others)
                      \/ ~MustFail(formData, others)
                      \/ ~EditFormSubmit(formData)
      ]_vars

\* C12, its case: the Add form was submitted with the phone of an active
\* contact and shows the error on the phone field; the Edit form likewise.
DuplicatePhoneReported ==
    /\ showAddForm
    /\ << "phone", "Phone number already exists" >> \in addErrors
    /\ << "email", "Email is invalid" >> \in addErrors
    /\ showEditForm
    /\ << "phone", "Phone number already exists" >> \in editErrors

\* C13: when the contact of the Edit form matches no record of the
\* collection, no step that closes the form (its submission included)
\* changes the collection or shows a notification of success.
StaleUpdateIsNotFound ==
    [][ (/\ showEditForm
         /\ contactToEdit # None
         /\ contactToEdit[1].id \notin ContactIds(contacts)
         /\ ~showEditForm') =>
            /\ contacts' = contacts
            /\ toast' = toast
            /\ timers' = timers
      ]_vars

\* The fields of a contact other than isFavorite.
OtherFields(c) ==
    << c.id, c.name, c.email, c.phone, c.location, c.address, c.birthday >>

\* C14: a toggle of an id flips isFavorite on the record with that id and
\* changes no other field and no other record; and two toggles of the same
\* id in a row give the collection the value it had.
ToggleFlipsOneFlag ==
    [][ \A contactId \in CardIds :
          HandleToggleFavorite(contactId) =>
              /\ Len(contacts') = Len(contacts)
              /\ \A i \in DOMAIN contacts :
                     /\ OtherFields(contacts'[i]) = OtherFields(contacts[i])
                     /\ contacts'[i].isFavorite =
                            IF contacts[i].id = contactId
                            THEN ~contacts[i].isFavorite
                            ELSE contacts[i].isFavorite
              /\ ToggleFavorite(contacts', contactId) = contacts
      ]_vars

\* C14, its case: a contact was made a favorite and then toggled again, and
\* the collection is what the seed load gave.
ToggledTwice ==
    /\ toast.show
    /\ Len(toast.message) = 3
    /\ toast.message[2] = " removed from"
    /\ contacts = ContactsWithFavorites

\* C15: handleUndoDelete called while the slot is empty changes nothing: not
\* the collection, the slot or the view, and it shows no notification.
UndoOfNothingIsNoOp ==
    [][ (deletedContact = None /\ CallUndoDelete) =>
            UNCHANGED << contacts, deletedContact, filteredContacts, toast,
                         timers, effectPending >>
      ]_vars

\* C15, its case: handleUndoDelete has been called on an empty slot, after a
\* deletion whose timeout had emptied it.
UndoneNothing ==
    /\ nothingPending
    /\ deletions >= 1
    /\ undone = { }
    /\ deletedContact = None
    /\ Len(contacts) = Len(ContactsData) - 1

\* The filter + sort effect runs.
EffectStep == effectPending /\ ~effectPending'

\* The text is found in the name at some position, letter by letter without
\* regard to case.
FoundIgnoringCase(text, name) ==
    \E i \in 1 .. (Len(name) + 1) :
        /\ i + Len(text) - 1 <= Len(name)
        /\ \A k \in DOMAIN text :
               LowerChar(name[i + k - 1]) = LowerChar(text[k])

\* The text is empty once trimmed: it holds white space only.
BlankText(text) == \A k \in DOMAIN text : text[k] \in WhiteSpace

\* How many times the contact occurs in the sequence.
Occurrences(cs, c) == Cardinality({ i \in DOMAIN cs : cs[i] = c })

\* C16: the view the effect computes holds every active contact when the
\* search text is blank, and otherwise exactly the active contacts whose name
\* contains the text as entered, without regard to case; no other field
\* decides.
ViewHoldsTheMatches ==
    [][ EffectStep =>
          /\ Range(filteredContacts') \subseteq Range(contacts)
          /\ \A c \in Range(contacts) :
                 Occurrences(filteredContacts', c) =
                     IF BlankText(searchQuery)
                           \/ FoundIgnoringCase(searchQuery, c.name)
                     THEN Occurrences(contacts, c)
                     ELSE 0
      ]_vars

\* C16, its case: the effect has run on a text that matches some contacts
\* and not others, one of these with the text in its email.
SomeMatchSomeNot ==
    /\ ~effectPending
    /\ ~BlankText(searchQuery)
    /\ filteredContacts # << >>
    /\ \E c \in Range(contacts) \ Range(filteredContacts) :
           Includes(ToLowerCase(c.email), ToLowerCase(searchQuery))

\* C17: the expiry of the timeout of an older notification does not hide a
\* newer notification: while a notification is shown and the expiring
\* timeout is not the one armed last, the notification stays as it is.
OlderExpiryKeepsNewer ==
    [][ (TimeoutStep /\ toast.show /\ Len(timers) > 1) => toast' = toast ]_vars

\* A successful submission of the Edit form: the form closes and a
\* notification is shown.
UpdateStep ==
    /\ showEditForm
    /\ contactToEdit # None
    /\ ~showEditForm'
    /\ timers' # timers

\* C18: a successful update replaces the record with the id of the edited
\* contact in place; that record keeps its id, its position and the
\* isFavorite value it has in the collection, and every other record and the
\* slot are unchanged.
UpdateReplacesInPlace ==
    [][ UpdateStep =>
          /\ Len(contacts') = Len(contacts)
          /\ \A i \in DOMAIN contacts :
                 IF contacts[i].id = contactToEdit[1].id
                 THEN /\ contacts'[i].id = contacts[i].id
                      /\ contacts'[i].isFavorite = contacts[i].isFavorite
                 ELSE contacts'[i] = contacts[i]
          /\ deletedContact' = deletedContact
      ]_vars

\* The seed load.
LoadStep == loading /\ ~loading'

\* C19: a contact is not a favorite when it is created (by the seed load or
\* by an add), and afterwards its isFavorite value changes only in a toggle
\* of its id; a contact that an undo restores has the value it had when its
\* deletion was confirmed.
FavoriteChangesByToggleOnly ==
    [][ \A i \in DOMAIN contacts' :
          LET c == contacts'[i]
          IN  \/ \E j \in DOMAIN contacts :
                     /\ contacts[j].id = c.id
                     /\ contacts[j].isFavorite = c.isFavorite
              \/ c.id \in CardIds /\ HandleToggleFavorite(c.id)
              \/ (AddStep \/ LoadStep) /\ ~c.isFavorite
              \/ /\ UndoStep
                 /\ i = Len(contacts')
                 /\ confirmedAs # None
                 /\ c.isFavorite = confirmedAs[1].isFavorite
      ]_vars

\* The names are equal once case is ignored.
EqualIgnoringCase(a, b) == ToLowerCase(a) = ToLowerCase(b)

\* The contacts of cs that have the isFavorite value and the name, in the
\* order they have in cs.
WithName(cs, isFavorite, name) ==
    SelectSeq(cs, LAMBDA c : c.isFavorite = isFavorite /\ c.name = name)

\* The contacts of cs that have the isFavorite value and the name once case
\* is ignored, in the order they have in cs.
WithNameIgnoringCase(cs, isFavorite, name) ==
    SelectSeq(cs, LAMBDA c : /\ c.isFavorite = isFavorite
                             /\ EqualIgnoringCase(c.name, name))

\* C20: in the view the effect computes, the contacts with the same
\* isFavorite value whose names are equal ignoring case are in the order they
\* have in the collection.
StableIgnoringCase ==
    [][ EffectStep =>
          \A c \in Range(contacts) :
              WithNameIgnoringCase(filteredContacts', c.isFavorite, c.name)
                = WithNameIgnoringCase(FilterContacts(contacts, searchQuery),
                                       c.isFavorite, c.name)
      ]_vars

\* C20, as amended: in the view the effect computes, the contacts with the
\* same isFavorite value and the same name are in the order they have in the
\* collection; two whose names differ in case only are in the order
\* localeCompare gives the names.
StableOnSameName ==
    [][ EffectStep =>
          /\ \A c \in Range(contacts) :
                 WithName(filteredContacts', c.isFavorite, c.name)
                   = WithName(FilterContacts(contacts, searchQuery),
                              c.isFavorite, c.name)
          /\ \A i, j \in DOMAIN filteredContacts' :
                 LET a == filteredContacts'[i]
                     b == filteredContacts'[j]
                 IN  (/\ i < j
                      /\ a.isFavorite = b.isFavorite
                      /\ a.name # b.name
                      /\ EqualIgnoringCase(a.name, b.name)) =>
                         LocaleCompare(a.name, b.name) < 0
      ]_vars

\* C20, its case: the view computed holds two contacts with the same name
\* and a third whose name differs from theirs in case only, all with the
\* same isFavorite value.
SameNamesInView ==
    /\ ~effectPending
    /\ \E i, j, k \in DOMAIN filteredContacts :
           /\ i < j
           /\ filteredContacts[i].name = filteredContacts[j].name
           /\ filteredContacts[k].name # filteredContacts[i].name
           /\ EqualIgnoringCase(filteredContacts[k].name,
                                filteredContacts[i].name)
           /\ filteredContacts[i].isFavorite = filteredContacts[j].isFavorite
           /\ filteredContacts[i].isFavorite = filteredContacts[k].isFavorite

\* C21: a successful add puts the new record, with isFavorite false, in
\* front of the collection, which grows by exactly one; the records the
\* collection had, their order and the pending-deletion slot are unchanged.
AddPrepends ==
    [][ AddStep =>
          /\ Len(contacts') = Len(contacts) + 1
          /\ Tail(contacts') = contacts
          /\ contacts'[1].isFavorite = FALSE
          /\ deletedContact' = deletedContact
      ]_vars

\* C21, its case: a contact has just been added in front of other contacts
\* while a deletion was pending.
AddedInFront ==
    /\ Len(contacts) >= 2
    /\ toast.show
    /\ toast.message = << contacts[1].name, " added successfully!" >>
    /\ contacts[1].id >= ClockStart
    /\ deletedContact # None

\* No contact of cs would tie with c in the sort of the view: none has the
\* isFavorite value of c and, case ignored, its name.
NoTieWith(c, cs) ==
    \A i \in DOMAIN cs :
        ~(cs[i].isFavorite = c.isFavorite /\ EqualIgnoringCase(cs[i].name, c.name))

\* C22: a successful undo appends the contact of the slot to the collection,
\* whose other records and their order are unchanged, and empties the slot;
\* and when the undo follows the deletion, with the collection and the
\* search text as the deletion left them and no contact that ties with the
\* restored one, the view computed from the new collection is the view the
\* deletion was confirmed in.
UndoReturnsTheView ==
    [][ UndoStep =>
          /\ contacts' = Append(contacts, deletedContact[1])
          /\ deletedContact' = None
          /\ (viewAtConfirm # None /\ NoTieWith(deletedContact[1], contacts)) =>
                 DeriveView(contacts', searchQuery') = viewAtConfirm[1]
      ]_vars

\* The fields of a form content that fail: the name when it is empty or
\* white space; the email when it is empty, white space or not of the form
\* of an email; the phone when it is empty, white space or, trimmed, the
\* phone of one of the contacts the form is given.
FailingFields(formData, existingContacts) ==
    { f \in { "name" } : Trim(formData.name) = << >> }
      \cup { f \in { "email" } :
               Trim(formData.email) = << >> \/ ~EmailPattern(formData.email) }
      \cup { f \in { "phone" } :
               \/ Trim(formData.phone) = << >>
               \/ \E c \in Range(existingContacts) :
                      Trim(c.phone) = Trim(formData.phone) }

\* The fields the errors are reported on.
ErrorFields(errors) == { e[1] : e \in errors }

\* C23: the validator of a submission reports an error on every field that
\* fails, all of them at once, and finds the content valid (the form is
\* closed and the contact stored) exactly when no field fails; a failed
\* submission changes neither the collection, nor the slot, nor the view.
\* (For every form content: the step is not the submission of that content,
\* or it has that outcome.)
ValidatorReportsEveryField ==
    [][ /\ MaybeAddSubmission =>
              \A formData \in ValidatorFormData :
                  \/ ~AddFormSubmit(formData, now')
                  \/ LET failing == FailingFields(formData, contacts)
                     IN  /\ (failing = { }) <=> ~showAddForm'
                         /\ failing # { } =>
                                /\ ErrorFields(addErrors') = failing
                                /\ UNCHANGED << contacts, deletedContact,
                                                filteredContacts >>
        /\ MaybeEditSubmission =>
              \A formData \in ValidatorFormData :
                  \/ ~EditFormSubmit(formData)
                  \/ LET others ==
                             SelectSeq(contacts,
                                       LAMBDA c : c.id # contactToEdit[1].id)
                         failing == FailingFields(formData, others)
                     IN  /\ (failing = { }) <=> ~showEditForm'
                         /\ failing # { } =>
                                /\ ErrorFields(editErrors') = failing
                                /\ UNCHANGED << contacts, deletedContact,
                                                filteredContacts >>
      ]_vars

\* C23, its case: a submission of the Add form has failed on its three
\* fields and one of the Edit form on two, and each form shows all of its
\* errors.
EveryFieldReported ==
    /\ showAddForm
    /\ ErrorFields(addErrors) = { "name", "email", "phone" }
    /\ showEditForm
    /\ Cardinality(ErrorFields(editErrors)) >= 2

\* Where the contact the Edit form was opened for is in the collection: the
\* first record with its id, or 0 when there is none.
EditedPosition ==
    IF \E i \in DOMAIN contacts : contacts[i].id = contactToEdit[1].id
    THEN CHOOSE i \in DOMAIN contacts :
             /\ contacts[i].id = contactToEdit[1].id
             /\ \A j \in 1 .. (i - 1) : contacts[j].id # contactToEdit[1].id
    ELSE 0

DuplicatePhone == << "phone", "Phone number already exists" >>

\* C24: a submission of the Edit form that leaves the phone of the contact
\* as it is never reports DuplicatePhone; one whose trimmed phone is the
\* trimmed phone of another contact of the collection always reports it (and
\* is refused).
EditIgnoresOnlyItself ==
    [][ MaybeEditSubmission =>
          \A formData \in EditFormData(contactToEdit[1]) :
              \/ /\ formData.phone = contactToEdit[1].phone =>
                        DuplicatePhone \notin editErrors'
                 /\ (\E i \in DOMAIN contacts \ { EditedPosition } :
                         Trim(contacts[i].phone) = Trim(formData.phone)) =>
                        /\ DuplicatePhone \in editErrors'
                        /\ showEditForm'
              \/ ~EditFormSubmit(formData)
      ]_vars

\* A step in which handleToggleFavorite or handleDeleteContact is called
\* with the id.
CalledWith(contactId) ==
    /\ events' # events
    /\ CallToggleFavorite(contactId) \/ CallDelete(contactId)

\* What a call with an id that is absent from the collection leaves as it
\* is: the collection, the slot, the view (also once the effect has run) and
\* the confirmation dialog.
AbsentIdChangesNothing ==
    /\ UNCHANGED << contacts, deletedContact, filteredContacts,
                    showConfirmDialog, contactToDelete >>
    /\ DeriveView(contacts', searchQuery') = filteredContacts

\* C25: handleToggleFavorite or handleDeleteContact called with an id that
\* is absent from the collection leaves the collection, the slot and the
\* view unchanged, opens no confirmation, and gives a signal (a notification
\* or an error message appears) that is not one of success.
AbsentIdSignalsNotFound ==
    [][ \A contactId \in OperationIds \ ContactIds(contacts) :
            CalledWith(contactId) =>
                /\ AbsentIdChangesNothing
                /\ toast' # toast
                /\ toast'.show
                /\ toast'.type # "success"
      ]_vars

\* What the code does of C25: handleToggleFavorite or handleDeleteContact
\* called with an id that is absent from the collection leaves the
\* collection, the slot and the view unchanged, opens no confirmation, and
\* signals nothing: no notification is shown, of success or of failure, and
\* no timeout armed.
AbsentIdIsSilentNoOp ==
    [][ \A contactId \in OperationIds \ ContactIds(contacts) :
            CalledWith(contactId) =>
                /\ AbsentIdChangesNothing
                /\ UNCHANGED << toast, timers, addErrors, editErrors >>
      ]_vars

\* Each of the two handlers has been called with an id that no contact of
\* the loaded collection had.
AbsentIdGiven ==
    /\ notFound = { "handleToggleFavorite", "handleDeleteContact" }
    /\ contacts # << >>

\* The deletions confirmed so far whose contact is neither in the slot nor
\* restored: it was discarded, by an expiry or by a later deletion.
Discarded(confirmed, pending, restored) ==
    { n \in 1 .. confirmed : n # pending /\ n \notin restored }

\* C26: under SpecLive, a slot that holds a contact is eventually empty (the
\* contact was restored by an undo or discarded by an expiry, or a later
\* deletion replaced it and was resolved in turn); and a contact that was
\* discarded, by an expiry or by a later deletion, is
\* never again in the slot nor restored: the collection grows only by the
\* undo of the deletion that is pending, by an add or by the seed load.
DeletionIsResolved ==
    /\ (deletedContact # None) ~> (deletedContact = None)
    /\ [][ /\ Discarded(deletions, pendingDeletion, undone)
                 \subseteq Discarded(deletions', pendingDeletion', undone')
           /\ Len(contacts') > Len(contacts) =>
                  \/ /\ UndoStep
                     /\ pendingDeletion # 0
                     /\ undone' = undone \cup { pendingDeletion }
                     /\ contacts' = Append(contacts, deletedContact[1])
                  \/ AddStep
                  \/ LoadStep
         ]_vars

\* C26, its case: a deletion was discarded by the expiry of a timeout and
\* another by a later deletion, and none of them is pending or restored.
DeletionsDiscarded ==
    /\ deletions >= 2
    /\ discarded # { }
    /\ deletedContact = None
    /\ timers = << >>
    /\ undone = { }

\* The ids of the contacts of the collection that were added through the
\* Add form (their ids are readings of the clock; the seed's are smaller).
AddedIds(cs) == { id \in ContactIds(cs) : id >= ClockStart }

\* C27: a contact that was added stays in the collection until a deletion
\* of that contact is confirmed: a step after which it is no longer in the
\* collection is the confirmation of the deletion requested for it; the
\* completion of the seed load and the expiry of a timeout are no such step.
AddedContactStays ==
    [][ \A id \in AddedIds(contacts) :
            id \notin ContactIds(contacts') =>
                /\ ConfirmStep
                /\ contactToDelete # None
                /\ contactToDelete[1].id = id
      ]_vars

\* C28: the id of the contact in the slot is the id of no contact of the
\* collection, in every state; and an undo puts no contact into the
\* collection twice (its id is that of one record of the new collection).
PendingIsNotActive ==
    [][ /\ deletedContact' # None =>
               deletedContact'[1].id \notin ContactIds(contacts')
        /\ UndoStep =>
               Cardinality({ i \in DOMAIN contacts' :
                               contacts'[i].id = deletedContact[1].id }) = 1
      ]_vars

\* C29: in every state in which the slot holds a contact, a toast of type
\* 'delete' is shown (the UNDO button is rendered in it); another
\* notification or the expiry of an older timeout does not end that.
UndoIsOfferedWhilePending ==
    deletedContact # None => (toast.show /\ toast.type = "delete")

\* handleSearchChange with a new text; handleDeleteContact opening the
\* confirmation dialog, or opening it for another contact; and
\* handleCancelDelete.
SearchStep == searchQuery' # searchQuery

RequestStep == contactToDelete' # None /\ contactToDelete' # contactToDelete

CancelStep == showConfirmDialog /\ ~showConfirmDialog' /\ ~ConfirmStep

\* C30: a change of the search text, the request of a deletion and the
\* cancellation of the confirmation leave the collection and the slot as
\* they are; and a step after which a contact is no longer in the
\* collection is the confirmation of a deletion, which removes the one
\* contact the dialog was opened for.
OnlyConfirmationRemoves ==
    [][ /\ (SearchStep \/ RequestStep \/ CancelStep) =>
               UNCHANGED << contacts, deletedContact >>
        /\ (\E id \in ContactIds(contacts) : id \notin ContactIds(contacts')) =>
               /\ ConfirmStep
               /\ contactToDelete # None
               /\ ContactIds(contacts) \ ContactIds(contacts')
                      = { contactToDelete[1].id }
               /\ Len(contacts') = Len(contacts) - 1
      ]_vars

====
